---- MODULE Spec2Model ----
(***************************************************************************)
(* Model of app.py: the persona catalog EXPERTS, get_llm_response (the     *)
(* consultation service) and the page flow of main().                      *)
(*                                                                         *)
(* Text is modelled as a sequence of chunks: user-entered text is a        *)
(* sequence of single characters, the program's message literals are       *)
(* one-chunk sequences.  The Japanese literals of the source are written   *)
(* in English, TLA+ strings being ASCII; the original is quoted in the     *)
(* comment next to each.                                                   *)
(* Python's None is the empty option <<>>, a present value v is <<v>>.     *)
(***************************************************************************)
EXTENDS Integers, Sequences, FiniteSets, TLC

\* ---------------------------------------------------------------- bounds
\* number of script runs / callers that may exist side by side
NumSessions == 2
\* longest text a user or caller enters
MaxLen == 2

Sessions == 1..NumSessions

\* ---------------------------------------------------------------- values
None == <<>>
Some(v) == <<v>>

Whitespace == {" ", "\n"}
Chars == Whitespace \cup {"a"}

TextsUpTo(n) == UNION {[1..k -> Chars] : k \in 0..n}
Texts == TextsUpTo(MaxLen)

\* keys a caller may pass: the catalog's and one that is not in it
PersonaKeys == {"A", "B", "C", "D", "Z"}

\* what the hosted model may answer
ReplyTexts == {<<>>, <<"a">>, <<" ", "a", "\n">>}

\* what an exception may carry as its message
ExcMessages == {<<>>, <<"rate limited">>}

\* the value of OPENAI_API_KEY in the process environment
EnvValues == {None, Some(<<>>), Some(<<"s", "k">>)}

\* ------------------------------------------------------ Python semantics
\* str.strip(): drop leading and trailing whitespace
RECURSIVE LStrip(_)
LStrip(t) ==
  IF t # <<>> /\ Head(t) \in Whitespace THEN LStrip(Tail(t)) ELSE t

RECURSIVE RStrip(_)
RStrip(t) ==
  IF t # <<>> /\ t[Len(t)] \in Whitespace
  THEN RStrip(SubSeq(t, 1, Len(t) - 1))
  ELSE t

Strip_Nothing(t) == t

Strip(t) == RStrip(LStrip(t))

\* the part of the built-in class hierarchy the handler's type test reads
ExcBase ==
  [ Exception |-> "BaseException",
    OSError |-> "Exception",
    TimeoutError |-> "OSError",
    KeyError |-> "Exception",
    KeyboardInterrupt |-> "BaseException",
    BaseException |-> "object" ]

RECURSIVE IsSubclass(_, _)
IsSubclass(c, base) ==
  IF c = base THEN TRUE
  ELSE IF c \in DOMAIN ExcBase THEN IsSubclass(ExcBase[c], base)
  ELSE FALSE

\* the classes a failing call raises in the model
RaisedClasses == {"Exception", "TimeoutError", "KeyboardInterrupt"}
Exceptions == [cls : RaisedClasses, msg : ExcMessages]

\* the inputs and upstream outcomes of the interleaved specification
ConcTexts == {<<>>, <<"a">>}
ConcKeys == {"A", "Z"}
ConcReplies == {<<"a">>}
ConcExceptions == {[cls |-> "Exception", msg |-> <<"rate limited">>]}

\* str(e) of an exception constructed with one message argument
Str(e) == e.msg

\* ------------------------------------------------------ the catalog
\* EXPERTS, the dict literal in declaration order.
\*   A: "データサイエンティスト"  B: "ソフトウェアエンジニア"
\*   C: "マーケティングスペシャリスト"  D: "財務アナリスト"
EXPERTS_EmptyInstruction ==
  << [key |-> "A", name |-> <<"Data scientist">>, system_message |-> <<>>],
     [key |-> "B", name |-> <<"Software engineer">>, system_message |-> <<"x">>] >>

EXPERTS ==
  << [key |-> "A", name |-> <<"Data scientist">>,
      system_message |-> <<"Data scientist. Versed in data analysis, machine learning and statistics. Explains with data and statistical evidence.">>],
     [key |-> "B", name |-> <<"Software engineer">>,
      system_message |-> <<"Software engineer. Versed in programming, system design and architecture. Explains with code examples and implementation methods.">>],
     [key |-> "C", name |-> <<"Marketing specialist">>,
      system_message |-> <<"Marketing specialist. Versed in branding, digital marketing and strategy. Proposes practical measures that consider market trends.">>],
     [key |-> "D", name |-> <<"Financial analyst">>,
      system_message |-> <<"Financial analyst. Versed in financial analysis, investment decisions and budgeting. Explains with figures and financial indicators, considering risk and return.">>] >>

\* list(d.keys()): the distinct keys in order of first appearance
RECURSIVE DictKeys(_)
DictKeys(d) ==
  IF d = <<>> THEN <<>>
  ELSE LET front == DictKeys(SubSeq(d, 1, Len(d) - 1))
           k == d[Len(d)].key
       IN IF \E i \in 1..Len(front) : front[i] = k THEN front ELSE Append(front, k)

\* the value a dict literal holds for k: the last entry written under k
DictValue(d, k) ==
  LET i == CHOOSE j \in 1..Len(d) :
             d[j].key = k /\ \A m \in (j + 1)..Len(d) : d[m].key # k
  IN [name |-> d[i].name, system_message |-> d[i].system_message]

HasKey(d, k) == \E i \in 1..Len(d) : d[i].key = k

\* d[k]: raises KeyError for a missing key
DictIndex(d, k) ==
  IF HasKey(d, k)
  THEN [raised |-> FALSE, value |-> Some(DictValue(d, k))]
  ELSE [raised |-> TRUE, exc |-> [cls |-> "KeyError", msg |-> <<"'", k, "'">>]]

\* d.get(k): None for a missing key, never raises
DictGet_Raising(d, k) == DictIndex(d, k)

DictGet(d, k) ==
  IF HasKey(d, k)
  THEN [raised |-> FALSE, value |-> Some(DictValue(d, k))]
  ELSE [raised |-> FALSE, value |-> None]

\* truth value of an optional text / of an optional dict
TruthyText_NotNone(o) == o # None

TruthyText(o) == o # None /\ o[1] # <<>>
TruthyDict(o) == o # None

\* ------------------------------------------------------ literals
\* "エラー: OPENAI_API_KEYが環境変数に設定されていません。.envファイルにOPENAI_API_KEYを設定してください。"
MSG_NO_API_KEY ==
  <<"Error: OPENAI_API_KEY is not set in the environment. Set OPENAI_API_KEY in the .env file.">>
\* "エラー: 無効な専門家が選択されました。"
MSG_INVALID_EXPERT == <<"Error: an invalid expert was selected.">>
\* "エラーが発生しました: "
ERROR_PREFIX == <<"An error occurred: ">>
\* "⚠️ 質問を入力してください。"
WARNING_EMPTY == <<"Please enter a question.">>

\* --------------------------------------------- the completion client
MaxTokens == 1500
\* 0.6
Temperature == [num |-> 6, den |-> 10]

\* ChatOpenAI(model="gpt-4o-mini", temperature=0.6, max_tokens=1500, api_key=api_key)
ChatOpenAI_Defaults(key) ==
  [model |-> "gpt-3.5-turbo", temperature |-> [num |-> 7, den |-> 10],
   max_tokens |-> 0, api_key |-> key]

ChatOpenAI(key) ==
  [model |-> "gpt-4o-mini", temperature |-> Temperature,
   max_tokens |-> MaxTokens, api_key |-> key]

\* messages = [SystemMessage(content=expert["system_message"]), HumanMessage(content=user_input)]
BuildMessages_Swapped(persona, text) ==
  << [role |-> "human", content |-> text],
     [role |-> "system", content |-> persona.system_message] >>

BuildMessages(persona, text) ==
  << [role |-> "system", content |-> persona.system_message],
     [role |-> "human", content |-> text] >>

\* return response.content
ResponseText_Stripped(response) == Strip(response.content)

ResponseText(response) == response.content

\* f"エラーが発生しました: {str(e)}"
ErrorText_NoDetail(e) == ERROR_PREFIX

ErrorText(e) == ERROR_PREFIX \o Str(e)

\* except Exception: the handler takes e when it is an instance of Exception
Catches_ValueErrorOnly(e) == IsSubclass(e.cls, "ValueError")

Catches(e) == IsSubclass(e.cls, "Exception")

\* ---------------------------------------------------------------- state
VARIABLES
  environ,        \* OPENAI_API_KEY of the process environment (after load_dotenv)
  experts,        \* the module-level dict EXPERTS
  pc,             \* where each session's control is
  caller,         \* "main": the page flow; "direct": get_llm_response called by itself
  clicked,        \* st.button's value in this script run
  user_input,     \* the text entered / passed
  expert_choice,  \* the persona key selected / passed
  api_key,        \* local of get_llm_response
  expert,         \* local of get_llm_response
  messages,       \* local of get_llm_response
  response,       \* local of get_llm_response: what llm.invoke returned
  sent,           \* requests this invocation has handed to llm.invoke, in order
  exc,            \* the exception in flight, if any
  result,         \* what get_llm_response returned
  calls,          \* invocations of get_llm_response in this script run
  warned,         \* what st.warning showed in this script run
  displayed       \* what st.markdown(response) showed in this script run

vars ==
  << environ, experts, pc, caller, clicked, user_input, expert_choice, api_key,
     expert, messages, response, sent, exc, result, calls, warned, displayed >>

locals == << api_key, expert, messages, response, sent, exc, result >>
page == << clicked, calls, warned, displayed >>
inputs == << caller, user_input, expert_choice >>
globals == << environ, experts >>

Idle ==
  /\ pc = [s \in Sessions |-> "idle"]
  /\ caller = [s \in Sessions |-> "none"]
  /\ clicked = [s \in Sessions |-> FALSE]
  /\ user_input = [s \in Sessions |-> <<>>]
  /\ expert_choice = [s \in Sessions |-> "A"]
  /\ api_key = [s \in Sessions |-> None]
  /\ expert = [s \in Sessions |-> None]
  /\ messages = [s \in Sessions |-> <<>>]
  /\ response = [s \in Sessions |-> None]
  /\ sent = [s \in Sessions |-> <<>>]
  /\ exc = [s \in Sessions |-> None]
  /\ result = [s \in Sessions |-> None]
  /\ calls = [s \in Sessions |-> 0]
  /\ warned = [s \in Sessions |-> None]
  /\ displayed = [s \in Sessions |-> None]

Init ==
  /\ environ \in EnvValues
  /\ experts = EXPERTS
  /\ Idle

\* no other session is between its start and its end
Alone(s) == \A t \in Sessions \ {s} : pc[t] = "idle"

\* ------------------------------------------------------------ main()
\* A script run reaches the widgets: the radio offers list(EXPERTS.keys()),
\* the text area holds what the user typed, the button was clicked or not.
\* (keys, texts: the choices and texts the specification lets the user make)
Rerun(s, keys, texts) ==
  /\ pc[s] = "idle"
  /\ \E i \in 1..Len(DictKeys(experts)), t \in texts, b \in BOOLEAN :
       /\ DictKeys(experts)[i] \in keys
       /\ expert_choice' = [expert_choice EXCEPT ![s] = DictKeys(experts)[i]]
       /\ user_input' = [user_input EXCEPT ![s] = t]
       /\ clicked' = [clicked EXCEPT ![s] = b]
  /\ caller' = [caller EXCEPT ![s] = "main"]
  /\ pc' = [pc EXCEPT ![s] = "button"]
  /\ UNCHANGED << globals, locals, calls, warned, displayed >>

\* if st.button(...): if not user_input.strip(): st.warning(...) else: get_llm_response(...)
Button(s) ==
  /\ pc[s] = "button"
  /\ IF ~clicked[s]
     THEN /\ pc' = [pc EXCEPT ![s] = "done"]
          /\ UNCHANGED << calls, warned >>
     ELSE IF Strip(user_input[s]) = <<>>
     THEN /\ warned' = [warned EXCEPT ![s] = Some(WARNING_EMPTY)]
          /\ pc' = [pc EXCEPT ![s] = "done"]
          /\ UNCHANGED calls
     ELSE /\ calls' = [calls EXCEPT ![s] = @ + 1]
          /\ pc' = [pc EXCEPT ![s] = "getenv"]
          /\ UNCHANGED warned
  /\ UNCHANGED << globals, inputs, locals, clicked, displayed >>

\* st.markdown(response), after the header read from EXPERTS[expert_choice]['name']
Display(s) ==
  /\ pc[s] = "returned"
  /\ caller[s] = "main"
  /\ LET header == DictIndex(experts, expert_choice[s])
     IN IF header.raised
        THEN /\ exc' = [exc EXCEPT ![s] = Some(header.exc)]
             /\ pc' = [pc EXCEPT ![s] = "raised"]
             /\ UNCHANGED displayed
        ELSE /\ displayed' = [displayed EXCEPT ![s] = result[s]]
             /\ pc' = [pc EXCEPT ![s] = "done"]
             /\ UNCHANGED exc
  /\ UNCHANGED << globals, inputs, clicked, calls, warned, api_key, expert, messages, response, sent, result >>

\* -------------------------------------------------- get_llm_response()
\* get_llm_response(user_input, expert_choice) called from outside the page flow
DirectCall(s, keys, texts) ==
  /\ pc[s] = "idle"
  /\ \E k \in keys, t \in texts :
       /\ expert_choice' = [expert_choice EXCEPT ![s] = k]
       /\ user_input' = [user_input EXCEPT ![s] = t]
  /\ caller' = [caller EXCEPT ![s] = "direct"]
  /\ calls' = [calls EXCEPT ![s] = @ + 1]
  /\ pc' = [pc EXCEPT ![s] = "getenv"]
  /\ UNCHANGED << globals, locals, clicked, warned, displayed >>

\* api_key = os.getenv("OPENAI_API_KEY"); if not api_key: return "..."
CheckApiKey(s) ==
  /\ pc[s] = "getenv"
  /\ api_key' = [api_key EXCEPT ![s] = environ]
  /\ IF ~TruthyText(environ)
     THEN /\ result' = [result EXCEPT ![s] = Some(MSG_NO_API_KEY)]
          /\ pc' = [pc EXCEPT ![s] = "returned"]
     ELSE /\ pc' = [pc EXCEPT ![s] = "lookup"]
          /\ UNCHANGED result
  /\ UNCHANGED << globals, inputs, page, expert, messages, response, sent, exc >>

\* expert = EXPERTS.get(expert_choice); if not expert: return "..."
Lookup(s) ==
  /\ pc[s] = "lookup"
  /\ LET got == DictGet(experts, expert_choice[s])
     IN IF got.raised
        THEN /\ exc' = [exc EXCEPT ![s] = Some(got.exc)]
             /\ pc' = [pc EXCEPT ![s] = "except"]
             /\ UNCHANGED << expert, result >>
        ELSE /\ expert' = [expert EXCEPT ![s] = got.value]
             /\ UNCHANGED exc
             /\ IF ~TruthyDict(got.value)
                THEN /\ result' = [result EXCEPT ![s] = Some(MSG_INVALID_EXPERT)]
                     /\ pc' = [pc EXCEPT ![s] = "returned"]
                ELSE /\ pc' = [pc EXCEPT ![s] = "invoke"]
                     /\ UNCHANGED result
  /\ UNCHANGED << globals, inputs, page, api_key, messages, response, sent >>

\* llm = ChatOpenAI(...); messages = [...]; llm.invoke(messages) is entered:
\* the request leaves for the hosted model and the caller blocks
Invoke_SharedBuffer(s) ==
  /\ pc[s] = "invoke"
  /\ LET llm == ChatOpenAI(api_key[s][1])
         last == CHOOSE t \in Sessions :
                   pc[t] # "idle" /\ \A u \in Sessions : pc[u] # "idle" => u <= t
         msgs == BuildMessages(expert[s][1], user_input[last])
     IN /\ messages' = [messages EXCEPT ![s] = msgs]
        /\ sent' = [sent EXCEPT ![s] = Append(@, [llm |-> llm, messages |-> msgs])]
  /\ pc' = [pc EXCEPT ![s] = "waiting"]
  /\ UNCHANGED << globals, inputs, page, api_key, expert, response, exc, result >>

Invoke(s) ==
  /\ pc[s] = "invoke"
  /\ LET llm == ChatOpenAI(api_key[s][1])
         msgs == BuildMessages(expert[s][1], user_input[s])
     IN /\ messages' = [messages EXCEPT ![s] = msgs]
        /\ sent' = [sent EXCEPT ![s] = Append(@, [llm |-> llm, messages |-> msgs])]
  /\ pc' = [pc EXCEPT ![s] = "waiting"]
  /\ UNCHANGED << globals, inputs, page, api_key, expert, response, exc, result >>

\* the constructor of the client raises (inside the try block)
ConstructRaises(s, excs) ==
  /\ pc[s] = "invoke"
  /\ \E e \in excs : exc' = [exc EXCEPT ![s] = Some(e)]
  /\ pc' = [pc EXCEPT ![s] = "except"]
  /\ UNCHANGED << globals, inputs, page, api_key, expert, messages, response, sent, result >>

\* response = llm.invoke(messages) returns; return response.content
InvokeReturns(s, replies) ==
  /\ pc[s] = "waiting"
  /\ \E c \in replies :
       /\ response' = [response EXCEPT ![s] = Some([content |-> c])]
       /\ result' = [result EXCEPT ![s] = Some(ResponseText([content |-> c]))]
  /\ pc' = [pc EXCEPT ![s] = "returned"]
  /\ UNCHANGED << globals, inputs, page, api_key, expert, messages, sent, exc >>

\* llm.invoke(messages) raises
InvokeRaises(s, excs) ==
  /\ pc[s] = "waiting"
  /\ \E e \in excs : exc' = [exc EXCEPT ![s] = Some(e)]
  /\ pc' = [pc EXCEPT ![s] = "except"]
  /\ UNCHANGED << globals, inputs, page, api_key, expert, messages, response, sent, result >>

\* except Exception as e: return f"...{str(e)}"; anything else propagates
Except_Retry(s) ==
  /\ pc[s] = "except"
  /\ IF sent[s] # <<>> /\ Len(sent[s]) < 3
     THEN /\ pc' = [pc EXCEPT ![s] = "invoke"]
          /\ UNCHANGED result
     ELSE IF Catches(exc[s][1])
     THEN /\ result' = [result EXCEPT ![s] = Some(ErrorText(exc[s][1]))]
          /\ pc' = [pc EXCEPT ![s] = "returned"]
     ELSE /\ pc' = [pc EXCEPT ![s] = "raised"]
          /\ UNCHANGED result
  /\ UNCHANGED << globals, inputs, page, api_key, expert, messages, response, sent, exc >>

Except(s) ==
  /\ pc[s] = "except"
  /\ IF Catches(exc[s][1])
     THEN /\ result' = [result EXCEPT ![s] = Some(ErrorText(exc[s][1]))]
          /\ pc' = [pc EXCEPT ![s] = "returned"]
     ELSE /\ pc' = [pc EXCEPT ![s] = "raised"]
          /\ UNCHANGED result
  /\ UNCHANGED << globals, inputs, page, api_key, expert, messages, response, sent, exc >>

\* the caller is done with the outcome; the next script run or call starts afresh
Finish(s) ==
  /\ \/ pc[s] \in {"done", "raised"}
     \/ pc[s] = "returned" /\ caller[s] = "direct"
  /\ pc' = [pc EXCEPT ![s] = "idle"]
  /\ caller' = [caller EXCEPT ![s] = "none"]
  /\ clicked' = [clicked EXCEPT ![s] = FALSE]
  /\ user_input' = [user_input EXCEPT ![s] = <<>>]
  /\ expert_choice' = [expert_choice EXCEPT ![s] = "A"]
  /\ api_key' = [api_key EXCEPT ![s] = None]
  /\ expert' = [expert EXCEPT ![s] = None]
  /\ messages' = [messages EXCEPT ![s] = <<>>]
  /\ response' = [response EXCEPT ![s] = None]
  /\ sent' = [sent EXCEPT ![s] = <<>>]
  /\ exc' = [exc EXCEPT ![s] = None]
  /\ result' = [result EXCEPT ![s] = None]
  /\ calls' = [calls EXCEPT ![s] = 0]
  /\ warned' = [warned EXCEPT ![s] = None]
  /\ displayed' = [displayed EXCEPT ![s] = None]
  /\ UNCHANGED globals

\* ------------------------------------------------------ specifications
\* one script run or call at a time, over all keys and texts
Next ==
  \/ \E s \in Sessions : Alone(s) /\ Rerun(s, PersonaKeys, Texts)
  \/ \E s \in Sessions : Alone(s) /\ DirectCall(s, PersonaKeys, Texts)
  \/ \E s \in Sessions : Button(s)
  \/ \E s \in Sessions : CheckApiKey(s)
  \/ \E s \in Sessions : Lookup(s)
  \/ \E s \in Sessions : Invoke(s)
  \/ \E s \in Sessions : ConstructRaises(s, Exceptions)
  \/ \E s \in Sessions : InvokeReturns(s, ReplyTexts)
  \/ \E s \in Sessions : InvokeRaises(s, Exceptions)
  \/ \E s \in Sessions : Except(s)
  \/ \E s \in Sessions : Display(s)
  \/ \E s \in Sessions : Finish(s)

Spec == Init /\ [][Next]_vars

\* script runs and calls interleaved at every step
NextConc ==
  \/ \E s \in Sessions : Rerun(s, ConcKeys, ConcTexts)
  \/ \E s \in Sessions : DirectCall(s, ConcKeys, ConcTexts)
  \/ \E s \in Sessions : Button(s)
  \/ \E s \in Sessions : CheckApiKey(s)
  \/ \E s \in Sessions : Lookup(s)
  \/ \E s \in Sessions : Invoke(s)
  \/ \E s \in Sessions : ConstructRaises(s, ConcExceptions)
  \/ \E s \in Sessions : InvokeReturns(s, ConcReplies)
  \/ \E s \in Sessions : InvokeRaises(s, ConcExceptions)
  \/ \E s \in Sessions : Except(s)
  \/ \E s \in Sessions : Display(s)
  \/ \E s \in Sessions : Finish(s)

SpecConc == Init /\ [][NextConc]_vars

\* ---------------------------------------------------------------- claims
\* t is empty once surrounding whitespace is trimmed
IsBlank(t) == \A i \in 1..Len(t) : t[i] \in Whitespace

\* the credential is missing or empty
NoCredential == environ = None \/ environ = Some(<<>>)

\* s has called get_llm_response and is past the credential check
PastCheck(s) == calls[s] > 0 /\ pc[s] # "getenv"

\* s is past the persona lookup with a credential
PastLookup(s) == PastCheck(s) /\ ~NoCredential /\ pc[s] # "lookup"

InCatalog(k) == \E i \in 1..Len(EXPERTS) : EXPERTS[i].key = k

InstructionOf(k) ==
  LET i == CHOOSE j \in 1..Len(EXPERTS) : EXPERTS[j].key = k
  IN EXPERTS[i].system_message

\* the failure a result denotes, "Success" if none
KindOf(r) ==
  IF r = MSG_NO_API_KEY THEN "MissingCredentials"
  ELSE IF r = MSG_INVALID_EXPERT THEN "UnknownPersona"
  ELSE IF r = WARNING_EMPTY THEN "EmptyQuery"
  ELSE IF Len(r) >= 1 /\ SubSeq(r, 1, 1) = ERROR_PREFIX THEN "UpstreamError"
  ELSE "Success"

\* C1 as stated: whatever the type of the failure the completion call raises,
\* nothing escapes get_llm_response and the result is the error text that
\* carries str(e).
C1_AnyFailureIsReturned ==
  \A s \in Sessions :
    (sent[s] # <<>> /\ exc[s] # None) =>
      /\ pc[s] # "raised"
      /\ pc[s] \in {"returned", "done"} => result[s] = Some(ERROR_PREFIX \o exc[s][1].msg)

\* C1 amended: a failure that is an instance of Exception, raised by the
\* completion call or by the client's constructor, never escapes and is
\* returned as the error text carrying str(e); get_llm_response lets an
\* exception escape only when it is not an instance of Exception.
C1_ExceptionIsReturned ==
  \A s \in Sessions :
    exc[s] # None =>
      IF IsSubclass(exc[s][1].cls, "Exception")
      THEN /\ pc[s] # "raised"
           /\ pc[s] \in {"returned", "done"} =>
                /\ result[s] = Some(ERROR_PREFIX \o exc[s][1].msg)
                /\ KindOf(result[s][1]) = "UpstreamError"
      ELSE pc[s] \in {"except", "raised"} /\ result[s] = None

C1_Witness ==
  \E s \in Sessions :
    /\ pc[s] = "returned"
    /\ sent[s] # <<>>
    /\ exc[s] = Some([cls |-> "TimeoutError", msg |-> <<"rate limited">>])
    /\ result[s] = Some(<<"An error occurred: ", "rate limited">>)

\* C2: with a credential, a catalog key and a normal return of the completion
\* call, the result is the returned text unchanged, and the one request made
\* carried the persona's instruction as system message and the raw query as
\* user message, in that order.
C2_SuccessPassthrough ==
  \A s \in Sessions :
    (PastCheck(s) /\ ~NoCredential /\ InCatalog(expert_choice[s])
       /\ response[s] # None) =>
      /\ pc[s] \in {"returned", "done"}
      /\ result[s] = Some(response[s][1].content)
      /\ Len(sent[s]) = 1
      /\ sent[s][1].messages =
           << [role |-> "system", content |-> InstructionOf(expert_choice[s])],
              [role |-> "human", content |-> user_input[s]] >>

C2_Witness ==
  \E s \in Sessions :
    /\ pc[s] = "returned"
    /\ expert_choice[s] = "C"
    /\ user_input[s] = <<" ", "a">>
    /\ response[s] = Some([content |-> <<" ", "a", "\n">>])
    /\ result[s] = Some(<<" ", "a", "\n">>)

\* C3: with the credential missing or empty, every call returns the
\* missing-credential text, whatever the key and the query, and no request
\* is made.
C3_MissingCredentialFirst ==
  \A s \in Sessions :
    (PastCheck(s) /\ NoCredential) =>
      /\ pc[s] \in {"returned", "done"}
      /\ result[s] = Some(MSG_NO_API_KEY)
      /\ sent[s] = <<>>
      /\ exc[s] = None

C3_Witness ==
  \E s \in Sessions :
    /\ pc[s] = "returned"
    /\ environ = Some(<<>>)
    /\ expert_choice[s] = "Z"
    /\ user_input[s] = <<" ">>
    /\ result[s] = Some(MSG_NO_API_KEY)

\* C4 as stated: with a credential, a call whose query is blank after trimming
\* makes no request and returns an empty-query failure.
C4_EmptyQueryRejected ==
  \A s \in Sessions :
    (PastCheck(s) /\ ~NoCredential /\ InCatalog(expert_choice[s])
       /\ IsBlank(user_input[s])) =>
      /\ sent[s] = <<>>
      /\ result[s] # None => KindOf(result[s][1]) = "EmptyQuery"

\* C5: with a credential, a key outside the catalog yields the invalid-expert
\* text whatever the query, and no request is made.
C5_UnknownPersona ==
  \A s \in Sessions :
    (PastLookup(s) /\ ~InCatalog(expert_choice[s])) =>
      /\ pc[s] = "returned"
      /\ result[s] = Some(MSG_INVALID_EXPERT)
      /\ sent[s] = <<>>
      /\ exc[s] = None

C5_Witness ==
  \E s \in Sessions :
    /\ pc[s] = "returned"
    /\ environ = Some(<<"s", "k">>)
    /\ expert_choice[s] = "Z"
    /\ user_input[s] = <<"a", "a">>
    /\ result[s] = Some(MSG_INVALID_EXPERT)

\* C6: one invocation hands at most one request to the completion call, only
\* after the credential and the persona passed validation, and a failure of
\* the call is followed by no second request.
C6_DispatchAtMostOnce ==
  \A s \in Sessions :
    /\ Len(sent[s]) <= 1
    /\ sent[s] # <<>> =>
         /\ ~NoCredential
         /\ api_key[s] = environ
         /\ InCatalog(expert_choice[s])
         /\ expert[s] # None
    /\ pc[s] \in {"getenv", "lookup", "invoke"} => sent[s] = <<>>
    /\ pc[s] = "waiting" => Len(sent[s]) = 1 /\ result[s] = None /\ exc[s] = None
    /\ response[s] # None => Len(sent[s]) = 1

C6_Witness ==
  \E s \in Sessions :
    /\ pc[s] = "returned"
    /\ Len(sent[s]) = 1
    /\ exc[s] = Some([cls |-> "Exception", msg |-> <<>>])
    /\ result[s] = Some(ERROR_PREFIX)

\* C7: every request uses model gpt-4o-mini, temperature 0.6 and at most 1500
\* output tokens, whatever the persona and the query.
C7_FixedParameters ==
  \A s \in Sessions :
    \A i \in 1..Len(sent[s]) :
      /\ sent[s][i].llm.model = "gpt-4o-mini"
      /\ sent[s][i].llm.temperature.num * 10 = 6 * sent[s][i].llm.temperature.den
      /\ sent[s][i].llm.max_tokens = 1500

C7_Witness ==
  \E s \in Sessions :
    /\ pc[s] = "waiting"
    /\ expert_choice[s] = "D"
    /\ user_input[s] = <<"\n", " ">>
    /\ Len(sent[s]) = 1

\* C8: the catalog's keys are unique; the lookup of a catalog key yields a
\* persona with a non-empty instruction, the lookup of any other key yields
\* None, and no lookup raises.
C8_LookupTotal ==
  /\ \A i, j \in 1..Len(experts) : experts[i].key = experts[j].key => i = j
  /\ Len(DictKeys(experts)) = Len(experts)
  /\ \A i \in 1..Len(experts) : DictKeys(experts)[i] = experts[i].key
  /\ \A s \in Sessions :
       PastLookup(s) =>
         IF \E i \in 1..Len(experts) : experts[i].key = expert_choice[s]
         THEN /\ expert[s] # None
              /\ expert[s][1].system_message # <<>>
              /\ \E i \in 1..Len(experts) :
                   /\ experts[i].key = expert_choice[s]
                   /\ experts[i].system_message = expert[s][1].system_message
         ELSE /\ expert[s] = None
              /\ exc[s] = None
              /\ pc[s] # "raised"

C8_Witness ==
  \E s \in Sessions :
    /\ pc[s] = "invoke"
    /\ expert_choice[s] = "B"
    /\ expert[s] # None
    /\ expert[s][1].name = <<"Software engineer">>

\* C9: under interleaving, what an invocation sends and returns is determined
\* by its own key, query, credential and upstream outcome, and the catalog
\* stays as declared.
C9_Independent ==
  /\ experts = EXPERTS
  /\ \A s \in Sessions :
       /\ \A i \in 1..Len(sent[s]) :
            /\ sent[s][i].llm.api_key = api_key[s][1]
            /\ sent[s][i].messages[1].content = InstructionOf(expert_choice[s])
            /\ sent[s][i].messages[2].content = user_input[s]
       /\ (calls[s] > 0 /\ pc[s] \in {"returned", "done"}) =>
            result[s] =
              IF api_key[s] = None \/ api_key[s] = Some(<<>>) THEN Some(MSG_NO_API_KEY)
              ELSE IF ~InCatalog(expert_choice[s]) THEN Some(MSG_INVALID_EXPERT)
              ELSE IF exc[s] # None THEN Some(ERROR_PREFIX \o exc[s][1].msg)
              ELSE Some(response[s][1].content)

C9_Witness ==
  \E s, t \in Sessions :
    /\ s # t
    /\ pc[s] = "returned" /\ pc[t] = "returned"
    /\ user_input[s] = <<"a">> /\ user_input[t] = <<>>
    /\ sent[s] # <<>> /\ sent[t] # <<>>
    /\ response[s] = Some([content |-> <<"a">>])
    /\ exc[t] = Some([cls |-> "Exception", msg |-> <<"rate limited">>])

\* C10: a script run calls get_llm_response only when the button was clicked
\* and the text is not blank, then exactly once and with a catalog key; a
\* click with blank text shows the warning and calls nothing; no click
\* calls nothing.
C10_PageFlow ==
  \A s \in Sessions :
    caller[s] = "main" =>
      /\ calls[s] <= 1
      /\ InCatalog(expert_choice[s])
      /\ calls[s] = 1 => clicked[s] /\ ~IsBlank(user_input[s])
      /\ calls[s] = 0 => sent[s] = <<>> /\ result[s] = None /\ displayed[s] = None
      /\ (pc[s] # "button" /\ clicked[s] /\ ~IsBlank(user_input[s])) => calls[s] = 1
      /\ (pc[s] # "button" /\ clicked[s] /\ IsBlank(user_input[s])) =>
           /\ pc[s] = "done"
           /\ warned[s] = Some(WARNING_EMPTY)
           /\ calls[s] = 0
      /\ ~clicked[s] => calls[s] = 0 /\ warned[s] = None
      /\ warned[s] # None => clicked[s] /\ IsBlank(user_input[s])

C10_Witness ==
  \E s \in Sessions :
    /\ caller[s] = "main"
    /\ pc[s] = "done"
    /\ clicked[s]
    /\ user_input[s] = <<" ", "\n">>
    /\ warned[s] = Some(WARNING_EMPTY)
    /\ calls[s] = 0
====
